---- MODULE Spec2Model ----
(***************************************************************************)
(* Model of the invoice scanner (src/app.py): the regular-expression field *)
(* extractor extract_invoice_fields and the upload pipeline that feeds it. *)
(*                                                                         *)
(* A text is a TLA+ string; the character at offset i (0-based, as in      *)
(* Python) is SubSeq(text, i + 1, i + 1).  The three patterns of the       *)
(* source are written as syntax trees and run by a backtracking matcher    *)
(* that lists the ways a pattern can match at an offset in the order       *)
(* Python's re module tries them (greedy repeats longest first, the        *)
(* alternatives of | left to right); re.search takes the first way at the  *)
(* smallest offset that has one.  Character classes are restricted to      *)
(* ASCII: the modelled inputs hold no other characters.                    *)
(***************************************************************************)
EXTENDS Integers, Sequences, FiniteSets, TLC

VARIABLES
    pc,        \* where the run stands
    upload,    \* the uploaded file: its kind, whether it decodes, its pages
    text,      \* the text handed to the extractor
    images,    \* the number of page images rendered so far
    idx,       \* the page the current loop is at
    errors,    \* the number of OCR failures reported with st.error
    fields,    \* the record extract_invoice_fields returned
    calls,     \* the number of calls of extract_invoice_fields
    shown,     \* what st.json displayed
    json_out,  \* what was written to processed/invoice_<timestamp>.json
    csv_out    \* what was written to processed/invoice_<timestamp>.csv

vars == <<pc, upload, text, images, idx, errors, fields, calls, shown,
          json_out, csv_out>>

(***************************************************************************)
(* Characters and character classes.                                       *)
(***************************************************************************)
UpperChars == "ABCDEFGHIJKLMNOPQRSTUVWXYZ"
LowerChars == "abcdefghijklmnopqrstuvwxyz"
DigitChars == "0123456789"

CharAt(s, i) == SubSeq(s, i + 1, i + 1)

CharsOf(s) == {SubSeq(s, k, k) : k \in 1..Len(s)}

\* \d
Digit == CharsOf(DigitChars)

\* \s
Space == {" ", "\t", "\n", "\r", "\f"}

Letter == CharsOf(UpperChars) \cup CharsOf(LowerChars)

\* \w
Word == Letter \cup Digit \cup {"_"}

\* [A-Za-z0-9\-]
AlnumHyphen == Letter \cup Digit \cup {"-"}

\* [\d,]
DigitComma == Digit \cup {","}

\* [/-]
SlashDash == {"/", "-"}

\* The lower-case form of one character (re.IGNORECASE compares these).
LowerChar(c) ==
    IF \E k \in 1..Len(UpperChars) : SubSeq(UpperChars, k, k) = c
    THEN LET k == CHOOSE j \in 1..Len(UpperChars) : SubSeq(UpperChars, j, j) = c
         IN  SubSeq(LowerChars, k, k)
    ELSE c

(***************************************************************************)
(* Pattern syntax trees.                                                   *)
(***************************************************************************)
Lit(s)         == [t |-> "lit", s |-> s]
Rep(c, lo, hi) == [t |-> "rep", c |-> c, lo |-> lo, hi |-> hi, unb |-> FALSE]
RepInf(c, lo)  == [t |-> "rep", c |-> c, lo |-> lo, hi |-> lo, unb |-> TRUE]
Star(c)        == RepInf(c, 0)
Plus(c)        == RepInf(c, 1)
Opt(c)         == Rep(c, 0, 1)
Times(c, n)    == Rep(c, n, n)
Cat(rs)        == [t |-> "cat", rs |-> rs]
Alt(rs)        == [t |-> "alt", rs |-> rs]
Grp(n, r)      == [t |-> "grp", n |-> n, r |-> r]

\* Group spans before anything is captured.
NoCaps == [g \in 1..2 |-> <<0, 0>>]

(***************************************************************************)
(* The backtracking matcher.                                               *)
(***************************************************************************)
\* Does the literal s stand at offset i of text (ic: ignoring case)?
LitAt(s, txt, ic, i) ==
    /\ i + Len(s) <= Len(txt)
    /\ \A k \in 1..Len(s) :
          LET a == SubSeq(s, k, k)
              b == SubSeq(txt, i + k, i + k)
          IN  IF ic THEN LowerChar(a) = LowerChar(b) ELSE a = b

\* The number of characters of class c standing at offset i, at most hi
\* of them unless unb.
RECURSIVE Run(_, _, _, _, _)
Run(c, txt, i, hi, unb) ==
    IF (~unb /\ hi = 0) \/ i >= Len(txt) \/ CharAt(txt, i) \notin c
    THEN 0
    ELSE 1 + Run(c, txt, i + 1, IF unb THEN hi ELSE hi - 1, unb)

\* The ways r matches at offset i, in the order the engine tries them:
\* each is the offset after the match and the group spans.
RECURSIVE Match(_, _, _, _, _), MatchCat(_, _, _, _, _, _),
          MatchRest(_, _, _, _, _, _), MatchAlt(_, _, _, _, _, _)
Match(r, txt, ic, i, caps) ==
    CASE r.t = "lit" ->
           IF LitAt(r.s, txt, ic, i)
           THEN <<[pos |-> i + Len(r.s), caps |-> caps]>>
           ELSE <<>>
      [] r.t = "rep" ->
           LET n == Run(r.c, txt, i, r.hi, r.unb)
           IN  IF n < r.lo THEN <<>>
               ELSE [k \in 1..(n - r.lo + 1) |->
                        [pos |-> i + n - k + 1, caps |-> caps]]
      [] r.t = "cat" -> MatchCat(r.rs, 1, txt, ic, i, caps)
      [] r.t = "alt" -> MatchAlt(r.rs, 1, txt, ic, i, caps)
      [] r.t = "grp" ->
           LET ms == Match(r.r, txt, ic, i, caps)
           IN  [k \in 1..Len(ms) |->
                  [pos |-> ms[k].pos,
                   caps |-> [ms[k].caps EXCEPT ![r.n] = <<i, ms[k].pos>>]]]

\* rs[k..] in sequence, from offset i.
MatchCat(rs, k, txt, ic, i, caps) ==
    IF k > Len(rs) THEN <<[pos |-> i, caps |-> caps]>>
    ELSE MatchRest(Match(rs[k], txt, ic, i, caps), rs, k, txt, ic, 1)

\* For each way ms[j..] of matching rs[k], the ways of matching rs[k+1..].
MatchRest(ms, rs, k, txt, ic, j) ==
    IF j > Len(ms) THEN <<>>
    ELSE MatchCat(rs, k + 1, txt, ic, ms[j].pos, ms[j].caps)
         \o MatchRest(ms, rs, k, txt, ic, j + 1)

\* The alternatives rs[k..], left to right.
MatchAlt(rs, k, txt, ic, i, caps) ==
    IF k > Len(rs) THEN <<>>
    ELSE Match(rs[k], txt, ic, i, caps) \o MatchAlt(rs, k + 1, txt, ic, i, caps)

NoMatch == [found |-> FALSE, start |-> 0, end |-> 0, caps |-> NoCaps]

\* re.search from offset i on: the first way at the smallest offset.
RECURSIVE SearchFrom(_, _, _, _)
SearchFrom(r, txt, ic, i) ==
    IF i > Len(txt) THEN NoMatch
    ELSE LET ms == Match(r, txt, ic, i, NoCaps)
         IN  IF ms # <<>>
             THEN [found |-> TRUE, start |-> i, end |-> ms[1].pos,
                   caps |-> ms[1].caps]
             ELSE SearchFrom(r, txt, ic, i + 1)

\* re.search(r, txt) and re.search(r, txt, re.IGNORECASE).
Search(r, txt, ic) == SearchFrom(r, txt, ic, 0)

\* m.group(g)
Group(txt, m, g) == SubSeq(txt, m.caps[g][1] + 1, m.caps[g][2])

\* m.group(0)
Whole(txt, m) == SubSeq(txt, m.start + 1, m.end)

(***************************************************************************)
(* The three patterns of extract_invoice_fields.                           *)
(***************************************************************************)
\* A variant of the invoice pattern whose token may be empty: * for +.
InvoiceNumberReStar ==
    Cat(<<Grp(1, Cat(<<Lit("Invoice"), Star(Space), Opt({"#"}), Opt({":"}),
                       Star(Space)>>)),
          Grp(2, Star(AlnumHyphen))>>)

\* (Invoice\s*#?:?\s*)([A-Za-z0-9\-]+)
InvoiceNumberRe ==
    Cat(<<Grp(1, Cat(<<Lit("Invoice"), Star(Space), Opt({"#"}), Opt({":"}),
                       Star(Space)>>)),
          Grp(2, Plus(AlnumHyphen))>>)

\* A variant of the day-first shape that takes "/" only: \d{2}/\d{2}/\d{4}
DateShapeDMYSlashOnly ==
    Cat(<<Times(Digit, 2), Times({"/"}, 1), Times(Digit, 2),
          Times({"/"}, 1), Times(Digit, 4)>>)

\* \d{2}[/-]\d{2}[/-]\d{4}
DateShapeDMY ==
    Cat(<<Times(Digit, 2), Times(SlashDash, 1), Times(Digit, 2),
          Times(SlashDash, 1), Times(Digit, 4)>>)

\* \d{4}[/-]\d{2}[/-]\d{2}
DateShapeYMD ==
    Cat(<<Times(Digit, 4), Times(SlashDash, 1), Times(Digit, 2),
          Times(SlashDash, 1), Times(Digit, 2)>>)

\* \d{1,2}\s+\w+\s+\d{4}
DateShapeText ==
    Cat(<<Rep(Digit, 1, 2), Plus(Space), Plus(Word), Plus(Space),
          Times(Digit, 4)>>)

DateShapes == <<DateShapeDMY, DateShapeYMD, DateShapeText>>

\* (\d{2}[/-]\d{2}[/-]\d{4}|\d{4}[/-]\d{2}[/-]\d{2}|\d{1,2}\s+\w+\s+\d{4})
DateRe == Grp(1, Alt(DateShapes))

\* (Total\s*Amount\s*:?|Grand\s*Total|Amount\s*Due|Balance)\s*\$?([\d,]+\.\d{2})
TotalLabelRe ==
    Alt(<<Cat(<<Lit("Total"), Star(Space), Lit("Amount"), Star(Space),
                Opt({":"})>>),
          Cat(<<Lit("Grand"), Star(Space), Lit("Total")>>),
          Cat(<<Lit("Amount"), Star(Space), Lit("Due")>>),
          Lit("Balance")>>)

TotalRe ==
    Cat(<<Grp(1, TotalLabelRe), Star(Space), Opt({"$"}),
          Grp(2, Cat(<<Plus(DigitComma), Times({"."}, 1), Times(Digit, 2)>>))>>)

(***************************************************************************)
(* extract_invoice_fields.                                                 *)
(***************************************************************************)
None    == <<>>
Some(s) == <<s>>

Keys == {"Invoice Number", "Invoice Date", "Total Amount"}

NoFields == [k \in Keys |-> None]

\* A variant of the date search that tries the shapes one after the other,
\* each over the whole text, and takes the first shape that matches.
RECURSIVE SearchShapesInTurn(_, _)
SearchShapesInTurn(txt, k) ==
    IF k > Len(DateShapes) THEN NoMatch
    ELSE LET m == Search(Grp(1, DateShapes[k]), txt, FALSE)
         IN  IF m.found THEN m ELSE SearchShapesInTurn(txt, k + 1)

date_match_shape_by_shape(txt) == SearchShapesInTurn(txt, 1)

invoice_number_match(txt) == Search(InvoiceNumberRe, txt, TRUE)
date_match(txt)           == Search(DateRe, txt, FALSE)
total_match(txt)          == Search(TotalRe, txt, TRUE)

extract_invoice_fields(txt) ==
    LET inv   == invoice_number_match(txt)
        date  == date_match(txt)
        total == total_match(txt)
    IN  [k \in Keys |->
            CASE k = "Invoice Number" ->
                   IF inv.found THEN Some(Group(txt, inv, 2)) ELSE None
              [] k = "Invoice Date" ->
                   IF date.found THEN Some(Group(txt, date, 1)) ELSE None
              [] k = "Total Amount" ->
                   IF total.found THEN Some(Group(txt, total, 2)) ELSE None]

(***************************************************************************)
(* Inputs of the extractor.                                                *)
(***************************************************************************)
\* The lower- and upper-case forms of a string.
UpperChar(c) ==
    IF \E k \in 1..Len(LowerChars) : SubSeq(LowerChars, k, k) = c
    THEN LET k == CHOOSE j \in 1..Len(LowerChars) : SubSeq(LowerChars, j, j) = c
         IN  SubSeq(UpperChars, k, k)
    ELSE c

RECURSIVE ToLower(_), ToUpper(_)
ToLower(s) ==
    IF s = "" THEN "" ELSE LowerChar(SubSeq(s, 1, 1)) \o ToLower(SubSeq(s, 2, Len(s)))
ToUpper(s) ==
    IF s = "" THEN "" ELSE UpperChar(SubSeq(s, 1, 1)) \o ToUpper(SubSeq(s, 2, Len(s)))

CaseForms(s) == {s, ToLower(s), ToUpper(s)}

\* The longest token sequence and the longest short string that are tried.
MaxDateParts == 3
MaxLen == 3

\* The two worked examples of the specification.
ExampleOne == "Invoice #12345 Total: $1,234.56 Date: 18/08/2025"
ExampleTwo == "Invoice No: ABC-99\nGrand Total 999.99\n2025-08-18"

\* A label, ":"?, whitespace?, "$"?, an amount.
TotalLabels == {"Total Amount", "Total", "Grand Total", "Amount Due", "Balance"}
LabelForms  == UNION {CaseForms(l) : l \in TotalLabels}
Amounts     == {"5.00", "1,234.56"}
LabelledAmount(l, c, w, d, a) == l \o c \o w \o d \o a
TotalInputs ==
    {LabelledAmount(l, c, w, d, a) :
        l \in LabelForms, c \in {"", ":"}, w \in {"", " "}, d \in {"", "$"},
        a \in Amounts}

\* Two labelled amounts, the first one 10.00 and the second one 20.00.
TwoTotals(l1, c1, l2, c2) ==
    l1 \o c1 \o "10.00" \o " ... " \o l2 \o c2 \o "20.00"
TwoTotalInputs ==
    {TwoTotals(l1, c1, l2, c2) :
        l1 \in TotalLabels, c1 \in {" ", ": "}, l2 \in TotalLabels,
        c2 \in {" ", ": "}}

\* One labelled number with zero to four fraction digits.
Fractions == {"", ".5", ".50", ".123", ".1234"}
FractionText(l, c, f) == l \o c \o "100" \o f
FractionInputs ==
    {FractionText(l, c, f) :
        l \in {"Total", "Total Amount", "Grand Total"}, c \in {" ", ": "},
        f \in Fractions}

\* "Invoice", an optional "No." or "#", an optional ":" or "-", optional
\* whitespace, a token.
InvoiceWords   == CaseForms("Invoice")
InvoiceMarkers == {"", " No.", " No", " #", "#"}
InvoiceSeps    == {"", ":", "-"}
InvoiceTokens  == {"A-1", "12345"}
InvoiceText(i, m, s, w, tok) == i \o m \o s \o w \o tok
\* The forms "Invoice No. T", "Invoice No: T", "Invoice #T", "Invoice: T"
\* and "Invoice T": the marker, the separator and the whitespace of each.
InvoiceForms ==
    {<<" No.", "", " ">>, <<" No", ":", " ">>, <<" #", "", "">>,
     <<"", ":", " ">>, <<"", "", " ">>}
InvoiceInputs ==
    {InvoiceText(i, m, s, w, tok) :
        i \in InvoiceWords, m \in InvoiceMarkers, s \in InvoiceSeps,
        w \in {"", " "}, tok \in InvoiceTokens}

\* Two digits, a separator, two digits, a separator, four digits.
TwoDigits  == {"00", "13", "18", "32", "99"}
FourDigits == {"0000", "2025", "9999"}
LexDate(d, s1, m, s2, y) == d \o s1 \o m \o s2 \o y
LexDateInputs ==
    {LexDate(d, s1, m, s2, y) :
        d \in TwoDigits, s1 \in SlashDash, m \in TwoDigits, s2 \in SlashDash,
        y \in FourDigits}

\* Dates of the three shapes and fragments of them, in any order.
DateTokens == {"18/08/2025", "2025-08-18", "7 Aug 2025", "x", " ", "1", "20"}
RECURSIVE TokenStrings(_, _)
TokenStrings(toks, n) ==
    IF n = 0 THEN {""}
    ELSE LET prev == TokenStrings(toks, n - 1)
         IN  prev \cup {p \o tk : p \in prev, tk \in toks}
DateInputs == TokenStrings(DateTokens, MaxDateParts)

\* A marker or a label with no value after it.
BareMarkers == {"Invoice", "Invoice #", "Invoice: ", "Total Amount:", "Balance $"}

\* Every short string over a few characters.
ShortChars  == {"1", "/", " ", "a", "."}
ShortInputs == TokenStrings(ShortChars, MaxLen)

Inputs ==
    {ExampleOne, ExampleTwo} \cup TotalInputs \cup TwoTotalInputs
    \cup FractionInputs \cup InvoiceInputs \cup LexDateInputs \cup DateInputs
    \cup BareMarkers \cup ShortInputs

(***************************************************************************)
(* The extractor as a state machine: one call on one input.                *)
(***************************************************************************)
NoUpload == [kind |-> "none", readable |-> TRUE, pages |-> <<>>]

InitExtract ==
    /\ pc = "call"
    /\ text \in Inputs
    /\ fields = NoFields
    /\ upload = NoUpload
    /\ images = 0
    /\ idx = 0
    /\ errors = 0
    /\ calls = 0
    /\ shown = None
    /\ json_out = None
    /\ csv_out = None

Extract ==
    /\ pc = "call"
    /\ fields' = extract_invoice_fields(text)
    /\ calls' = calls + 1
    /\ pc' = "returned"
    /\ UNCHANGED <<upload, text, images, idx, errors, shown, json_out, csv_out>>

NextExtract == Extract

SpecExtract == InitExtract /\ [][NextExtract]_vars

(***************************************************************************)
(* The upload pipeline: one run of the script on one uploaded file.        *)
(***************************************************************************)
\* The most pages an uploaded PDF has.
MaxPages == 2

\* What a page holds as embedded text, and what OCR reads off its image.
EmbeddedTexts == {"", " \n", "Invoice #7\nBalance $5.00\n"}
OcrTexts      == {"", "Invoice: A-1 18/08/2025 "}

\* A page: its embedded text, and what pytesseract does with its image.
Pages ==
    [embedded : EmbeddedTexts, ocr : OcrTexts, ocr_raises : BOOLEAN]

PageLists == UNION {[1..n -> Pages] : n \in 1..MaxPages}

Uploads ==
    {[kind |-> "pdf", readable |-> r, pages |-> ps] :
        r \in BOOLEAN, ps \in PageLists}
    \cup
    {[kind |-> "image", readable |-> r,
      pages |-> <<[embedded |-> "", ocr |-> o, ocr_raises |-> x]>>] :
        r \in BOOLEAN, o \in OcrTexts, x \in BOOLEAN}

\* not text.strip()
IsBlank(s) == \A k \in 1..Len(s) : SubSeq(s, k, k) \in Space

Init ==
    /\ pc = "waiting"
    /\ upload = NoUpload
    /\ text = ""
    /\ images = 0
    /\ idx = 0
    /\ errors = 0
    /\ fields = NoFields
    /\ calls = 0
    /\ shown = None
    /\ json_out = None
    /\ csv_out = None

\* A file is uploaded and saved; text = "", images = [].
Upload ==
    /\ pc = "waiting"
    /\ upload' \in Uploads
    /\ text' = ""
    /\ images' = 0
    /\ pc' = "open"
    /\ UNCHANGED <<idx, errors, fields, calls, shown, json_out, csv_out>>

\* fitz.open on a PDF: an undecodable file raises, and nothing catches it.
OpenPdf ==
    /\ pc = "open"
    /\ upload.kind = "pdf"
    /\ IF upload.readable
       THEN pc' = "pages" /\ idx' = 1
       ELSE pc' = "crashed" /\ idx' = idx
    /\ UNCHANGED <<upload, text, images, errors, fields, calls, shown,
                   json_out, csv_out>>

\* for page in doc: the embedded text is appended, the page rendered.
ReadPage ==
    /\ pc = "pages"
    /\ idx <= Len(upload.pages)
    /\ text' = text \o upload.pages[idx].embedded
    /\ images' = images + 1
    /\ idx' = idx + 1
    /\ UNCHANGED <<pc, upload, errors, fields, calls, shown, json_out, csv_out>>

\* After the loop: the OCR fallback is entered if the text is blank.
PagesDone ==
    /\ pc = "pages"
    /\ idx > Len(upload.pages)
    /\ IF IsBlank(text)
       THEN pc' = "ocr" /\ idx' = 1
       ELSE pc' = "show" /\ idx' = idx
    /\ UNCHANGED <<upload, text, images, errors, fields, calls, shown,
                   json_out, csv_out>>

\* for img in images: pytesseract reads the page.
OcrPage ==
    /\ pc = "ocr"
    /\ idx <= images
    /\ ~upload.pages[idx].ocr_raises
    /\ text' = text \o upload.pages[idx].ocr
    /\ idx' = idx + 1
    /\ UNCHANGED <<pc, upload, images, errors, fields, calls, shown, json_out,
                   csv_out>>

\* A variant without the try/except around the page's OCR: the run dies.
OcrPageRaisesUncaught ==
    /\ pc = "ocr"
    /\ idx <= images
    /\ upload.pages[idx].ocr_raises
    /\ errors' = errors + 1
    /\ pc' = "crashed"
    /\ UNCHANGED <<upload, text, images, idx, fields, calls, shown, json_out,
                   csv_out>>

\* pytesseract raises on a page: st.error, break.
OcrPageRaises ==
    /\ pc = "ocr"
    /\ idx <= images
    /\ upload.pages[idx].ocr_raises
    /\ errors' = errors + 1
    /\ pc' = "show"
    /\ UNCHANGED <<upload, text, images, idx, fields, calls, shown, json_out,
                   csv_out>>

\* The OCR loop ends with every page read.
OcrDone ==
    /\ pc = "ocr"
    /\ idx > images
    /\ pc' = "show"
    /\ UNCHANGED <<upload, text, images, idx, errors, fields, calls, shown,
                   json_out, csv_out>>

\* Image.open on an image upload: an undecodable file raises.
OpenImage ==
    /\ pc = "open"
    /\ upload.kind = "image"
    /\ pc' = IF upload.readable THEN "image_ocr" ELSE "crashed"
    /\ UNCHANGED <<upload, text, images, idx, errors, fields, calls, shown,
                   json_out, csv_out>>

\* text = pytesseract.image_to_string(image)
ImageOcr ==
    /\ pc = "image_ocr"
    /\ ~upload.pages[1].ocr_raises
    /\ text' = upload.pages[1].ocr
    /\ pc' = "show"
    /\ UNCHANGED <<upload, images, idx, errors, fields, calls, shown, json_out,
                   csv_out>>

\* pytesseract raises on the image: st.error, text = "".
ImageOcrRaises ==
    /\ pc = "image_ocr"
    /\ upload.pages[1].ocr_raises
    /\ errors' = errors + 1
    /\ text' = ""
    /\ pc' = "show"
    /\ UNCHANGED <<upload, images, idx, fields, calls, shown, json_out, csv_out>>

\* The text is displayed, the fields extracted and displayed.
ExtractAndShow ==
    /\ pc = "show"
    /\ fields' = extract_invoice_fields(text)
    /\ calls' = calls + 1
    /\ shown' = Some(fields')
    /\ pc' = "save"
    /\ UNCHANGED <<upload, text, images, idx, errors, json_out, csv_out>>

\* json.dump(fields) and DataFrame([fields]).to_csv.
SaveFields ==
    /\ pc = "save"
    /\ json_out' = Some(fields)
    /\ csv_out' = Some(fields)
    /\ pc' = "downloads"
    /\ UNCHANGED <<upload, text, images, idx, errors, fields, calls, shown>>

\* The download buttons and the preview are drawn; the run ends.
Downloads ==
    /\ pc = "downloads"
    /\ pc' = "done"
    /\ UNCHANGED <<upload, text, images, idx, errors, fields, calls, shown,
                   json_out, csv_out>>

Next ==
    \/ Upload
    \/ OpenPdf
    \/ ReadPage
    \/ PagesDone
    \/ OcrPage
    \/ OcrPageRaises
    \/ OcrDone
    \/ OpenImage
    \/ ImageOcr
    \/ ImageOcrRaises
    \/ ExtractAndShow
    \/ SaveFields
    \/ Downloads

Spec == Init /\ [][Next]_vars
(***************************************************************************)
(* Properties of extract_invoice_fields, in the runs of SpecExtract.       *)
(***************************************************************************)
Returned == pc = "returned"

Record(n, d, a) ==
    [k \in Keys |->
        CASE k = "Invoice Number" -> n
          [] k = "Invoice Date" -> d
          [] k = "Total Amount" -> a]

IsSubstring(s, t) ==
    \E i \in 0..(Len(t) - Len(s)) : SubSeq(t, i + 1, i + Len(s)) = s

\* C1: the first worked example yields invoice number "12345", total
\* amount "1,234.56" and invoice date "18/08/2025".
C1_ExampleOne ==
    (Returned /\ text = ExampleOne)
        => fields = Record(Some("12345"), Some("18/08/2025"), Some("1,234.56"))

\* C2: the second worked example yields invoice number "ABC-99", total
\* amount "999.99" and invoice date "2025-08-18".
C2_ExampleTwo ==
    (Returned /\ text = ExampleTwo)
        => fields = Record(Some("ABC-99"), Some("2025-08-18"), Some("999.99"))

\* C3: for each of the five labels in any letter case, with or without
\* ":", whitespace and "$", the total amount of label + amount is the amount.
C3_EveryLabelForm ==
    Returned =>
        \A l \in LabelForms, c \in {"", ":"}, w \in {"", " "}, d \in {"", "$"},
           a \in Amounts :
            text = LabelledAmount(l, c, w, d, a)
                => fields["Total Amount"] = Some(a)

\* C4: for each accepted form of the invoice marker followed by a token T,
\* the invoice number is T.
C4_EveryMarkerForm ==
    Returned =>
        \A i \in InvoiceWords, f \in InvoiceForms, tok \in InvoiceTokens :
            text = InvoiceText(i, f[1], f[2], f[3], tok)
                => fields["Invoice Number"] = Some(tok)

\* C5: of two labelled amounts, whatever their labels, the total amount is
\* the amount of the first one.
C5_LeftmostLabelWins ==
    Returned =>
        \A l1 \in TotalLabels, c1 \in {" ", ": "}, l2 \in TotalLabels,
           c2 \in {" ", ": "} :
            text = TwoTotals(l1, c1, l2, c2)
                => fields["Total Amount"] = Some("10.00")

\* C6: a labelled number whose fraction has zero, one, three or more digits
\* yields no total amount.
C6_ExactlyTwoFractionDigits ==
    Returned =>
        \A l \in {"Total", "Total Amount", "Grand Total"}, c \in {" ", ": "},
           f \in Fractions \ {".50"} :
            text = FractionText(l, c, f) => fields["Total Amount"] = None

\* The leftmost match of date shape k alone.
ShapeMatch(k) == Search(DateShapes[k], text, FALSE)

ShapesFound == {k \in 1..Len(DateShapes) : ShapeMatch(k).found}

\* The shape whose match starts first, the earlier-listed one on a tie.
EarliestShape ==
    CHOOSE k \in ShapesFound :
        \A j \in ShapesFound :
            \/ ShapeMatch(k).start < ShapeMatch(j).start
            \/ ShapeMatch(k).start = ShapeMatch(j).start /\ k <= j

\* C7: when some date shape matches, the invoice date is the match that
\* starts earliest in the text over all three shapes; the listing order of
\* the shapes decides only between matches that start at the same offset.
C7_EarliestDateWins ==
    (Returned /\ ShapesFound # {})
        => fields["Invoice Date"] = Some(Whole(text, ShapeMatch(EarliestShape)))

\* A year-first date standing before a day-first date is the one returned.
C7_Witness ==
    /\ Returned
    /\ ShapeMatch(1).found
    /\ ShapeMatch(2).found
    /\ ShapeMatch(2).start < ShapeMatch(1).start
    /\ fields["Invoice Date"] = Some(Whole(text, ShapeMatch(2)))

\* C8: every call returns a record with exactly the three keys, each absent
\* or a non-empty substring of the input; the empty text yields all absent.
C8_TotalFunction ==
    Returned =>
        /\ DOMAIN fields = Keys
        /\ \A k \in Keys :
              \/ fields[k] = None
              \/ /\ Len(fields[k]) = 1
                 /\ fields[k][1] # ""
                 /\ IsSubstring(fields[k][1], text)
        /\ text = "" => fields = NoFields

\* A call that populates all three fields.
C8_Witness ==
    /\ Returned
    /\ \A k \in Keys : fields[k] # None

\* Two digits, "/" or "-", two digits, "/" or "-", four digits.
IsLexDate(s) ==
    /\ Len(s) = 10
    /\ \A k \in {1, 2, 4, 5, 7, 8, 9, 10} : SubSeq(s, k, k) \in Digit
    /\ \A k \in {3, 6} : SubSeq(s, k, k) \in SlashDash

\* C9: a text that is two digits, a separator, two digits, a separator and
\* four digits is returned whole as the invoice date, whatever its digits.
C9_LexicalDate ==
    (Returned /\ IsLexDate(text)) => fields["Invoice Date"] = Some(text)

\* The date 32/13/2025 is returned.
C9_Witness ==
    /\ Returned
    /\ text = "32/13/2025"
    /\ fields["Invoice Date"] = Some("32/13/2025")

(***************************************************************************)
(* Properties of the upload pipeline, in the runs of Spec.                 *)
(***************************************************************************)
\* The embedded text of pages 1..n, and what OCR reads off pages 1..n.
RECURSIVE EmbeddedText(_), OcrText(_)
EmbeddedText(n) ==
    IF n = 0 THEN "" ELSE EmbeddedText(n - 1) \o upload.pages[n].embedded
OcrText(n) ==
    IF n = 0 THEN "" ELSE OcrText(n - 1) \o upload.pages[n].ocr

\* The first page whose OCR raises.
FirstRaising ==
    CHOOSE n \in 1..Len(upload.pages) :
        /\ upload.pages[n].ocr_raises
        /\ \A m \in 1..(n - 1) : ~upload.pages[m].ocr_raises

AfterText == {"show", "save", "downloads", "done"}

\* C10: an OCR failure never reaches the extractor as an error.  After a
\* failure on an image the text is empty; after one in the PDF fallback,
\* which is entered only on blank embedded text, the loop has stopped and
\* the text read so far is kept; either way the run stands at or after the
\* display step and has not died, the extractor is called exactly once, on
\* the text, and its result is displayed and written to the JSON and the
\* CSV output.
C10_OcrFailureContained ==
    /\ calls <= 1
    /\ pc = "ocr" => IsBlank(EmbeddedText(Len(upload.pages)))
    /\ errors > 0 =>
          /\ errors = 1
          /\ pc \in AfterText
          /\ upload.kind = "image" => text = ""
          /\ upload.kind = "pdf" =>
                /\ IsBlank(EmbeddedText(Len(upload.pages)))
                /\ text = EmbeddedText(Len(upload.pages))
                            \o OcrText(FirstRaising - 1)
          /\ pc = "show" => calls = 0
          /\ pc # "show" =>
                /\ calls = 1
                /\ fields = extract_invoice_fields(text)
                /\ shown = Some(fields)
          /\ pc \in {"downloads", "done"} =>
                json_out = Some(fields) /\ csv_out = Some(fields)

\* A PDF whose second page fails in OCR: the first page's text is kept,
\* extracted from and saved.
C10_Witness ==
    /\ pc = "done"
    /\ errors = 1
    /\ upload.kind = "pdf"
    /\ ~IsBlank(text)
    /\ calls = 1
    /\ fields["Invoice Number"] = Some("A-1")
    /\ json_out = Some(fields)
====
